---- MODULE Spec2Model ----
(***************************************************************************)
(* Model of src/app.py: the LoyalBooks Top-100 catalog browser.            *)
(*                                                                         *)
(* Text is modelled as a sequence of tokens.  The tokens are chosen so     *)
(* that a Python substring test or split on 'Page', 'Page ', 'of', ' of '  *)
(* or ' by ' coincides with the same test on token sequences: no token     *)
(* other than "Page"/"of"/"by" contains those letters, and " " is its own  *)
(* token.                                                                  *)
(***************************************************************************)
EXTENDS Integers, Sequences, FiniteSets, TLC

(***************************************************************************)
(* Bounds of the model (not program constants).                           *)
(***************************************************************************)
MaxEntries == 2      \* catalog entries on one page
MaxItems == 2        \* item nodes in one feed document
MaxNum == 2          \* largest number printed in a marker text
MaxStray == 1        \* stray tokens after the total in a marker text
MaxPage == 2         \* the cursor is not advanced beyond this page
MaxBack == 1         \* the cursor is not moved below -MaxBack

(***************************************************************************)
(* Optional values: Python None is the empty sequence, a present value v   *)
(* is <<v>>.                                                               *)
(***************************************************************************)
None == << >>
Some(v) == <<v>>

\* Python truthiness of an optional integer: None and 0 are falsy.
Truthy(o) == o # None /\ o[1] # 0

(***************************************************************************)
(* Python string primitives on token sequences.                            *)
(***************************************************************************)
\* s[i:i+len(sep)] == sep
MatchAt(s, sep, i) ==
    /\ i >= 1
    /\ i + Len(sep) - 1 <= Len(s)
    /\ SubSeq(s, i, i + Len(sep) - 1) = sep

\* str.find, 1-based; 0 when sep does not occur
Find(s, sep) ==
    IF \E i \in 1..Len(s) : MatchAt(s, sep, i)
    THEN CHOOSE i \in 1..Len(s) :
            /\ MatchAt(s, sep, i)
            /\ \A j \in 1..(i - 1) : ~MatchAt(s, sep, j)
    ELSE 0

\* sep in s
Contains(s, sep) == Find(s, sep) # 0

\* s.split(sep): non-overlapping occurrences, left to right
RECURSIVE Split(_, _)
Split(s, sep) ==
    LET j == Find(s, sep) IN
    IF j = 0 THEN <<s>>
    ELSE <<SubSeq(s, 1, j - 1)>> \o Split(SubSeq(s, j + Len(sep), Len(s)), sep)

\* s.replace(t, '') for a one-token t
RECURSIVE Remove(_, _)
Remove(s, t) ==
    IF s = << >> THEN << >>
    ELSE IF Head(s) = t THEN Remove(Tail(s), t)
    ELSE <<Head(s)>> \o Remove(Tail(s), t)

\* s.replace(t, u) for one-token t and u
RECURSIVE Replace(_, _, _)
Replace(s, t, u) ==
    IF s = << >> THEN << >>
    ELSE <<(IF Head(s) = t THEN u ELSE Head(s))>> \o Replace(Tail(s), t, u)

\* s.strip()
RECURSIVE LStrip(_)
LStrip(s) ==
    IF s # << >> /\ Head(s) = " " THEN LStrip(Tail(s)) ELSE s

RECURSIVE RStrip(_)
RStrip(s) ==
    IF s # << >> /\ s[Len(s)] = " " THEN RStrip(SubSeq(s, 1, Len(s) - 1)) ELSE s

Strip(s) == RStrip(LStrip(s))

Digits == {"0", "1", "2", "3", "4", "5"}

DigitVal(d) ==
    CASE d = "0" -> 0 [] d = "1" -> 1 [] d = "2" -> 2
      [] d = "3" -> 3 [] d = "4" -> 4 [] d = "5" -> 5

RECURSIVE DecVal(_)
DecVal(s) ==
    IF s = << >> THEN 0
    ELSE 10 * DecVal(SubSeq(s, 1, Len(s) - 1)) + DigitVal(s[Len(s)])

\* int(s): surrounding whitespace is ignored, one optional sign, then at
\* least one digit.  ok = FALSE stands for ValueError.
PyInt(s) ==
    LET t == Strip(s)
        neg == t # << >> /\ Head(t) = "-"
        d == IF neg THEN Tail(t) ELSE t
    IN  IF d # << >> /\ \A i \in 1..Len(d) : d[i] \in Digits
        THEN [ok |-> TRUE, val |-> IF neg THEN 0 - DecVal(d) ELSE DecVal(d)]
        ELSE [ok |-> FALSE, val |-> 0]

(***************************************************************************)
(* get_pagination_info(soup), reading the global PAGE.                     *)
(* soup = [div |-> the result-pages node exists, text |-> its text].       *)
(* The result carries the dictionary (a key that was never set reads as    *)
(* None through dict.get) and whether the warning was printed.             *)
(***************************************************************************)
\* the total's text used as it is
KeepMarks(s) == s

\* parts[1].replace('>', '')
StripMarks(s) == Remove(s, ">")

PaginationDict(cur, tot, derived, warned) ==
    [current_page |-> cur,
     total_pages  |-> tot,
     has_previous |-> IF derived /\ cur > 1 THEN Some(cur - 1) ELSE None,
     has_next     |-> IF derived /\ cur < tot THEN Some(cur + 1) ELSE None,
     warning      |-> warned]

get_pagination_info(soup, page) ==
    IF ~soup.div THEN PaginationDict(page, page, FALSE, FALSE)
    ELSE IF ~(Contains(soup.text, <<"Page">>) /\ Contains(soup.text, <<"of">>))
    THEN PaginationDict(page, page, TRUE, FALSE)
    ELSE
      LET pieces == Split(soup.text, <<"Page", " ">>) IN
      IF Len(pieces) < 2 THEN PaginationDict(page, page, TRUE, TRUE)
      ELSE
        LET parts == Split(pieces[2], <<" ", "of", " ">>)
            c == PyInt(parts[1])
        IN
        IF ~c.ok THEN PaginationDict(page, page, TRUE, TRUE)
        ELSE IF Len(parts) < 2 THEN PaginationDict(c.val, page, TRUE, TRUE)
        ELSE
          LET t == PyInt(StripMarks(parts[2])) IN
          IF ~t.ok THEN PaginationDict(c.val, page, TRUE, TRUE)
          ELSE PaginationDict(c.val, t.val, TRUE, FALSE)


(***************************************************************************)
(* The outside world: catalog pages, feeds, daemon and user.               *)
(***************************************************************************)
SeqsUpTo(S, n) == UNION {[1..k -> S] : k \in 0..n}

DigitTok(n) ==
    CASE n = 0 -> "0" [] n = 1 -> "1" [] n = 2 -> "2"
      [] n = 3 -> "3" [] n = 4 -> "4" [] n = 5 -> "5"

\* what can stand where a number is expected in a marker
NumTexts == {<<DigitTok(n)>> : n \in 0..MaxNum} \cup {<<"x">>}

StrayTexts == SeqsUpTo({">", "x"}, MaxStray)

\* the text "Page <x> of <y>"
MarkerText(x, y) == <<"Page", " ">> \o x \o <<" ", "of", " ">> \o y

\* marker texts that are not of that shape at all
OddTexts ==
    { << >>, <<"x">>, <<"Page">>, <<"of">>,
      <<"Page", "1", "of", "2">>,
      <<"of", "Page", " ", "2">>,
      <<"Page", " ", "2", "of">>,
      <<"Page", " ", "-", "1", " ", "of", " ", "2">>,
      <<"Page", " ", "1", " ", "of", " ", "2", " ", "of", " ", "3">> }

MarkerTexts ==
    {MarkerText(x, y) \o s : x \in NumTexts, y \in NumTexts, s \in StrayTexts}
        \cup OddTexts

NoSoup == [div |-> FALSE, text |-> << >>]

\* the parsed page as far as get_pagination_info reads it
Soups == {NoSoup} \cup {[div |-> TRUE, text |-> t] : t \in MarkerTexts}

\* a td.layout2-blue entry: has a <b> title, href of its first anchor
Entries == [b : BOOLEAN, href : {None, Some("/a")}]

\* outcomes of requests.get + raise_for_status
HttpFailures == {"RequestException", "HTTPError"}

\* an item node: has an enclosure child, and that child's url attribute
Items == {[enclosure |-> FALSE, url |-> None]}
            \cup {[enclosure |-> TRUE, url |-> u] : u \in {Some("u1"), Some("u2")}}

\* the first title element of the feed: absent, or its text (None when empty)
Titles ==
    { [present |-> FALSE, text |-> None],
      [present |-> TRUE, text |-> None],
      [present |-> TRUE,
       text |-> Some(<<"Pride", " ", "and", " ", "Prejudice", " ", "by", " ", "Jane", " ", "Austen">>)],
      [present |-> TRUE,
       text |-> Some(<<" ", "Gulliver", "'", "s", " ", "Travels", " ">>)] }

\* a parsed feed: whether the root element has children, title, items
EmptyRoot == [children |-> FALSE, title |-> [present |-> FALSE, text |-> None], items |-> << >>]

Feeds ==
    {EmptyRoot} \cup
    {[children |-> TRUE, title |-> t, items |-> its] :
        t \in Titles, its \in SeqsUpTo(Items, MaxItems)}

\* what the user can type at the prompt
RawInputs ==
    {<<DigitTok(n)>> : n \in 0..(MaxEntries + 1)} \cup
    { <<"n">>, <<" ", "N", " ">>, <<"p">>, <<"P">>, <<"x">>, << >>, <<"sup2">> }


\* what the catalog server can answer to GET BASE_URL/<page> in main
PageResponses ==
    {[status |-> f, soup |-> NoSoup] : f \in HttpFailures} \cup
    {[status |-> "ok", soup |-> sp] : sp \in Soups}

\* what the site can answer to GET <link>/feed: a failure of the request, a
\* body that is not well-formed XML, or a parsed feed
FeedResponses ==
    {[status |-> f, feed |-> EmptyRoot] : f \in HttpFailures \cup {"ParseError"}} \cup
    {[status |-> "ok", feed |-> fd] : fd \in Feeds}

\* what the catalog server can answer to GET BASE_URL/<page> in fetch_books
CatalogResponses ==
    {[status |-> f, entries |-> << >>] : f \in HttpFailures} \cup
    {[status |-> "ok", entries |-> es] : es \in SeqsUpTo(Entries, MaxEntries)}

(***************************************************************************)
(* fetch_books(page): the listing, and what it prints.  A book record is   *)
(* kept as the one field the controller reads, its link.                   *)
(***************************************************************************)
BookOf(entry) ==
    [link |-> IF entry.href # None
              THEN Some(<<"http://www.loyalbooks.com", entry.href[1]>>)
              ELSE None]

RECURSIVE ParseEntries(_)
ParseEntries(entries) ==
    IF entries = << >> THEN << >>
    ELSE IF ~Head(entries).b THEN ParseEntries(Tail(entries))
    ELSE <<BookOf(Head(entries))>> \o ParseEntries(Tail(entries))

fetch_books(resp) ==
    IF resp.status \in HttpFailures
    THEN [books |-> << >>, out |-> <<"Error fetching books">>]
    ELSE [books |-> ParseEntries(resp.entries), out |-> << >>]

(***************************************************************************)
(* download_book(rss_feed), with the daemon's answer to each add_uris      *)
(* call given by fails.                                                    *)
(***************************************************************************)
LowerTok(t) ==
    CASE t = "Pride" -> "pride" [] t = "Prejudice" -> "prejudice"
      [] t = "Jane" -> "jane" [] t = "Austen" -> "austen"
      [] t = "Gulliver" -> "gulliver" [] t = "Travels" -> "travels"
      [] t = "N" -> "n" [] t = "P" -> "p"
      [] OTHER -> t

\* s.lower()
Lower(s) == [i \in 1..Len(s) |-> LowerTok(s[i])]

\* book_title.split(' by ')[0].strip().lower().replace(' ', '-').replace("'", '')
CleanTitle(book_title) ==
    Remove(Replace(Lower(Strip(Split(book_title, <<" ", "by", " ">>)[1])), " ", "-"), "'")

\* the urls of the items that have an enclosure, in document order
RECURSIVE Mp3Urls(_)
Mp3Urls(items) ==
    IF items = << >> THEN << >>
    ELSE IF Head(items).enclosure THEN <<Head(items).url>> \o Mp3Urls(Tail(items))
    ELSE Mp3Urls(Tail(items))

RECURSIVE SubmitLog(_, _)
SubmitLog(fails, i) ==
    IF i > Len(fails) THEN <<"Download started!">>
    ELSE (IF fails[i] THEN <<"Error adding URL to aria2p">> ELSE << >>)
            \o SubmitLog(fails, i + 1)

download_book(feed, fails) ==
    IF feed.title.present /\ feed.title.text = None
    THEN [raised |-> TRUE, attempts |-> << >>, out |-> <<"Traceback">>]
    ELSE
      LET book_title == IF feed.title.present THEN Strip(feed.title.text[1])
                        ELSE <<"unknown_title">>
          book_dir == <<"audiobooks", "/">> \o CleanTitle(book_title)
          mp3_urls == Mp3Urls(feed.items)
      IN [raised |-> FALSE,
          attempts |-> [i \in 1..Len(mp3_urls) |->
                          [uris |-> <<mp3_urls[i]>>, dir |-> book_dir, ok |-> ~fails[i]]],
          out |-> SubmitLog(fails, 1)]

(***************************************************************************)
(* The prompt: input(...).strip().lower() and the tests made on it.        *)
(***************************************************************************)
Normalise(raw) == Lower(Strip(raw))

\* str.isdigit(): superscript two is a digit for isdigit but not for int
IsDigit(c) == c # << >> /\ \A i \in 1..Len(c) : c[i] \in Digits \cup {"sup2"}

\* 'n' accepted whatever the dictionary holds
AlwaysNext(info) == TRUE

\* if pagination_info.get('has_next')
CanGoNext(info) == Truthy(info.has_next)

\* 'p' accepted whatever the dictionary holds
AlwaysPrevious(info) == TRUE

\* if pagination_info.get('has_previous')
CanGoPrevious(info) == Truthy(info.has_previous)

\* the loop goes on to the prompt whatever the listing
AlwaysPrompt(bs) == "prompt"

\* if not books: ... return
AfterListing(bs) == IF bs = << >> THEN "done" ELSE "prompt"

(***************************************************************************)
(* State.                                                                  *)
(***************************************************************************)
VARIABLES
    PAGE,             \* the global page cursor
    pc,               \* position of main(): get, books, prompt, feed, download, break,
                      \* done, crashed
    soup,             \* main's parsed page
    books,            \* main's listing
    pagination_info,  \* None or Some(main's pagination dictionary)
    choice,           \* the normalised input read last
    selected_book,    \* None or Some(book)
    rss_feed,         \* None or Some(feed)
    attempts,         \* the add_uris calls of the last download_book
    out,              \* what the last step printed
    fetched,          \* page number of the last catalog GET, None before the first
    lastFetch,        \* outcome of the last catalog GET: none, ok, empty or a failure
    lastFeed,         \* outcome of the last feed GET: none, ok or a failure
    hist              \* what the markers shown so far had in common

vars == <<PAGE, pc, soup, books, pagination_info, choice, selected_book,
          rss_feed, attempts, out, fetched, lastFetch, lastFeed, hist>>

Terminal == {"done", "crashed"}

\* the dictionary of the page on display
Info == pagination_info[1]

Init ==
    /\ PAGE = 1
    /\ pc = "get"
    /\ soup = NoSoup
    /\ books = << >>
    /\ pagination_info = None
    /\ choice = << >>
    /\ selected_book = None
    /\ rss_feed = None
    /\ attempts = << >>
    /\ out = << >>
    /\ fetched = None
    /\ lastFetch = "none"
    /\ lastFeed = "none"
    /\ hist = [shown |-> FALSE, agree |-> TRUE, ordered |-> TRUE]

\* An uncaught exception ends the process with a traceback.
Crash ==
    /\ pc' = "crashed"
    /\ out' = <<"Traceback">>

\* main's own GET of the page; the input of the previous iteration is not
\* read again and is forgotten here.
MainGet(resp) ==
    /\ pc = "get"
    /\ fetched' = Some(PAGE)
    /\ IF resp.status \in HttpFailures
       THEN /\ Crash
            /\ lastFetch' = resp.status
            /\ UNCHANGED <<soup, choice>>
       ELSE /\ soup' = resp.soup
            /\ pc' = "books"
            /\ out' = << >>
            /\ lastFetch' = "ok"
            /\ choice' = << >>
    /\ UNCHANGED <<PAGE, books, pagination_info, selected_book, rss_feed, attempts,
                   lastFeed, hist>>

\* fetch_books(PAGE), the emptiness test, display_books and get_pagination_info
FetchBooks(resp) ==
    /\ pc = "books"
    /\ fetched' = Some(PAGE)
    /\ LET r == fetch_books(resp)
           info == get_pagination_info(soup, PAGE)
       IN
       /\ books' = r.books
       /\ lastFetch' = IF resp.status \in HttpFailures THEN resp.status
                       ELSE IF r.books = << >> THEN "empty" ELSE "ok"
       /\ pc' = AfterListing(r.books)
       /\ IF r.books = << >>
          THEN /\ out' = r.out \o <<"No books found or there was an error fetching the book list.">>
               /\ UNCHANGED <<pagination_info, hist>>
          ELSE /\ pagination_info' = Some(info)
               /\ out' = <<"Available books:">>
                            \o (IF info.warning THEN <<"Warning: Pagination text parsing failed">> ELSE << >>)
                            \o <<"Page c of t">>
               /\ hist' = [shown |-> TRUE,
                           agree |-> hist.agree /\ info.current_page = PAGE,
                           ordered |-> hist.ordered /\ info.current_page <= info.total_pages]
    /\ UNCHANGED <<PAGE, soup, choice, selected_book, rss_feed, attempts, lastFeed>>

\* break: the iteration's page, listing and pagination are not read again
LeaveInnerLoop ==
    /\ soup' = NoSoup
    /\ books' = << >>
    /\ pagination_info' = None

\* a digit string that int() rejects
BadNumber(raw) ==
    /\ pc = "prompt"
    /\ LET c == Normalise(raw) IN
       /\ IsDigit(c)
       /\ ~PyInt(c).ok
       /\ choice' = c
    /\ Crash
    /\ UNCHANGED <<PAGE, soup, books, pagination_info, selected_book, rss_feed,
                   attempts, fetched, lastFetch, lastFeed, hist>>

\* a number within 1..len(books)
ChooseBook(raw) ==
    /\ pc = "prompt"
    /\ LET c == Normalise(raw) IN
       /\ IsDigit(c)
       /\ PyInt(c).ok
       /\ 1 <= PyInt(c).val /\ PyInt(c).val <= Len(books)
       /\ choice' = c
       /\ selected_book' = Some(books[PyInt(c).val])
       /\ pc' = IF books[PyInt(c).val].link # None THEN "feed" ELSE "break"
    /\ out' = << >>
    /\ LeaveInnerLoop
    /\ UNCHANGED <<PAGE, rss_feed, attempts, fetched, lastFetch, lastFeed, hist>>

\* a number outside 1..len(books)
OutOfRange(raw) ==
    /\ pc = "prompt"
    /\ LET c == Normalise(raw) IN
       /\ IsDigit(c)
       /\ PyInt(c).ok
       /\ ~(1 <= PyInt(c).val /\ PyInt(c).val <= Len(books))
       /\ choice' = c
    /\ out' = <<"Invalid choice. Please enter a number between 1 and len(books).">>
    /\ UNCHANGED <<PAGE, pc, soup, books, pagination_info, selected_book, rss_feed,
                   attempts, fetched, lastFetch, lastFeed, hist>>

\* 'n'
NextPage(raw) ==
    /\ pc = "prompt"
    /\ LET c == Normalise(raw) IN
       /\ ~IsDigit(c)
       /\ c = <<"n">>
       /\ choice' = c
    /\ IF CanGoNext(Info)
       THEN /\ PAGE < MaxPage
            /\ PAGE' = PAGE + 1
            /\ pc' = "get"
            /\ out' = << >>
            /\ LeaveInnerLoop
       ELSE /\ out' = <<"No next page available.">>
            /\ UNCHANGED <<PAGE, pc, soup, books, pagination_info>>
    /\ UNCHANGED <<selected_book, rss_feed, attempts, fetched, lastFetch, lastFeed,
                   hist>>

\* 'p'
PreviousPage(raw) ==
    /\ pc = "prompt"
    /\ LET c == Normalise(raw) IN
       /\ ~IsDigit(c)
       /\ c = <<"p">>
       /\ choice' = c
    /\ IF CanGoPrevious(Info)
       THEN /\ PAGE > 0 - MaxBack
            /\ PAGE' = PAGE - 1
            /\ pc' = "get"
            /\ out' = << >>
            /\ LeaveInnerLoop
       ELSE /\ out' = <<"No previous page available.">>
            /\ UNCHANGED <<PAGE, pc, soup, books, pagination_info>>
    /\ UNCHANGED <<selected_book, rss_feed, attempts, fetched, lastFetch, lastFeed,
                   hist>>

\* anything else
InvalidInput(raw) ==
    /\ pc = "prompt"
    /\ LET c == Normalise(raw) IN
       /\ ~IsDigit(c)
       /\ c # <<"n">>
       /\ c # <<"p">>
       /\ choice' = c
    /\ out' = <<"Invalid input. Please enter a number, 'n' for next page, or 'p' for previous page.">>
    /\ UNCHANGED <<PAGE, pc, soup, books, pagination_info, selected_book, rss_feed,
                   attempts, fetched, lastFetch, lastFeed, hist>>

\* fetch_rss_feed(selected_book['link']) and the test on its result
FetchFeed(resp) ==
    /\ pc = "feed"
    /\ IF resp.status \in HttpFailures
       THEN /\ rss_feed' = None
            /\ lastFeed' = resp.status
            /\ out' = <<"Error fetching RSS feed",
                        "Failed to fetch the RSS feed. Please try again.">>
            /\ pc' = "break"
       ELSE IF resp.status = "ParseError"
       THEN /\ lastFeed' = resp.status
            /\ Crash
            /\ UNCHANGED rss_feed
       ELSE /\ rss_feed' = Some(resp.feed)
            /\ lastFeed' = "ok"
            /\ IF resp.feed.children
               THEN /\ pc' = "download"
                    /\ out' = << >>
               ELSE /\ pc' = "break"
                    /\ out' = <<"Failed to fetch the RSS feed. Please try again.">>
    /\ UNCHANGED <<PAGE, soup, books, pagination_info, choice, selected_book,
                   attempts, fetched, lastFetch, hist>>

\* download_book(rss_feed)
DownloadBook(fails) ==
    /\ pc = "download"
    /\ DOMAIN fails = 1..Len(Mp3Urls(rss_feed[1].items))
    /\ LET r == download_book(rss_feed[1], fails) IN
       /\ attempts' = r.attempts
       /\ out' = r.out
       /\ pc' = IF r.raised THEN "crashed" ELSE "break"
    /\ UNCHANGED <<PAGE, soup, books, pagination_info, choice, selected_book,
                   rss_feed, fetched, lastFetch, lastFeed, hist>>

\* the break that ends the handling of a chosen book; what that handling
\* left behind is not read again
Break ==
    /\ pc = "break"
    /\ pc' = "get"
    /\ selected_book' = None
    /\ rss_feed' = None
    /\ attempts' = << >>
    /\ lastFeed' = "none"
    /\ out' = << >>
    /\ UNCHANGED <<PAGE, soup, books, pagination_info, choice, fetched, lastFetch, hist>>

Next ==
    \/ \E resp \in PageResponses : MainGet(resp)
    \/ \E resp \in CatalogResponses : FetchBooks(resp)
    \/ \E raw \in RawInputs : BadNumber(raw)
    \/ \E raw \in RawInputs : ChooseBook(raw)
    \/ \E raw \in RawInputs : OutOfRange(raw)
    \/ \E raw \in RawInputs : NextPage(raw)
    \/ \E raw \in RawInputs : PreviousPage(raw)
    \/ \E raw \in RawInputs : InvalidInput(raw)
    \/ \E resp \in FeedResponses : FetchFeed(resp)
    \/ \E fails \in SeqsUpTo(BOOLEAN, MaxItems) : DownloadBook(fails)
    \/ Break

Spec == Init /\ [][Next]_vars

(***************************************************************************)
(* Properties.                                                             *)
(***************************************************************************)
FetchFailures == HttpFailures \cup {"empty"}

FeedFailures == HttpFailures \cup {"ParseError"}

IsNumber(s) == s # << >> /\ \A i \in 1..Len(s) : s[i] \in Digits

\* the text starts with "Page <number> of <number>"
HasPattern(t) ==
    \E i \in 4..Len(t) : \E j \in (i + 3)..Len(t) :
        /\ SubSeq(t, 1, 2) = <<"Page", " ">>
        /\ IsNumber(SubSeq(t, 3, i - 1))
        /\ SubSeq(t, i, i + 2) = <<" ", "of", " ">>
        /\ IsNumber(SubSeq(t, i + 3, j))

\* C1: when 'n' is entered while the dictionary of the page on display has a
\* next page, the cursor becomes exactly that page and the loop goes on to
\* fetch it; the same for 'p' and the previous page; every catalog GET asks
\* for the cursor.
C1_NavigationFetchesTarget ==
    [][ /\ (pc = "prompt" /\ choice' = <<"n">> /\ Info.has_next # None)
            => (pc' = "get" /\ PAGE' = Info.has_next[1])
        /\ (pc = "prompt" /\ choice' = <<"p">> /\ Info.has_previous # None)
            => (pc' = "get" /\ PAGE' = Info.has_previous[1])
        /\ (fetched' # fetched) => (fetched' = Some(PAGE')) ]_vars

\* C2: in every dictionary returned by get_pagination_info the previous page
\* is present iff the current page is above 1, and the next page is present
\* iff the current page is below the total.
C2_PreviousNextInvariant ==
    pagination_info # None =>
        /\ (Info.has_previous # None) <=> (Info.current_page > 1)
        /\ (Info.has_next # None) <=> (Info.current_page < Info.total_pages)

\* C3: the cursor changes only on 'n' with a next page or 'p' with a previous
\* page; every other step leaves it alone, and every catalog GET asks for the
\* cursor, so the page shown after any other input is the same page.
C3_CursorFrame ==
    [][ /\ (PAGE' # PAGE) =>
            /\ pc = "prompt"
            /\ \/ (choice' = <<"n">> /\ Info.has_next # None)
               \/ (choice' = <<"p">> /\ Info.has_previous # None)
        /\ (fetched' # fetched) => (fetched' = Some(PAGE) /\ PAGE' = PAGE) ]_vars

\* a book was chosen on a page beyond the first, its jobs were submitted,
\* and the cursor is still the page that was fetched
C3_Witness ==
    /\ pc = "break"
    /\ selected_book # None
    /\ attempts # << >>
    /\ PAGE > 1
    /\ fetched = Some(PAGE)

\* C4: once a catalog GET has failed or the listing is empty, the condition
\* has been reported and the session is over: nothing more can happen.
C4_FetchFailureEndsSession ==
    lastFetch \in FetchFailures =>
        /\ pc \in Terminal
        /\ out # << >>
        /\ ~ENABLED Next

\* the GET inside fetch_books failed on a page reached by navigation
C4_Witness ==
    /\ lastFetch \in HttpFailures
    /\ pc = "done"
    /\ fetched = Some(2)

\* C5: whatever goes wrong with the feed (request failure, error status,
\* body that is not a feed), fetch_rss_feed yields no document and the loop
\* goes on with the same page.
C5_FeedFailureContinues ==
    lastFeed \in FeedFailures =>
        /\ pc = "break"
        /\ rss_feed = None
        /\ fetched = Some(PAGE)

\* C6: after download_book has run on a parsed feed, the add_uris calls are
\* exactly the enclosures of its items, in document order, one call each,
\* all with one directory, whatever calls failed.
C6_OneAttemptPerEnclosure ==
    (pc \in {"break", "crashed"} /\ rss_feed # None /\ rss_feed[1].children) =>
        LET its == rss_feed[1].items
            enc == {i \in 1..Len(its) : its[i].enclosure}
        IN  /\ Len(attempts) = Cardinality(enc)
            /\ \E f \in [1..Len(attempts) -> enc] :
                /\ \A k, l \in 1..Len(attempts) : k < l => f[k] < f[l]
                /\ \A k \in 1..Len(attempts) : attempts[k].uris = <<its[f[k]].url>>
            /\ \A k, l \in 1..Len(attempts) : attempts[k].dir = attempts[l].dir

\* C7: for a marker text that is not "Page <current> of <total>", current and
\* total are both the requested page and the warning is printed.
C7_FallbackOnMismatch ==
    (pc = "prompt" /\ soup.div /\ ~HasPattern(soup.text)) =>
        /\ Info.current_page = PAGE
        /\ Info.total_pages = PAGE
        /\ Info.warning

\* C8 as stated: "Page X of Y" with 1 <= X <= Y, followed by any stray
\* characters, parses to current = X and total = Y.
C8_ParsesWithAnyStray ==
    pc = "prompt" =>
        \A x \in 1..MaxNum : \A y \in x..MaxNum : \A st \in StrayTexts :
            (soup.div /\ soup.text = MarkerText(<<DigitTok(x)>>, <<DigitTok(y)>>) \o st)
                => (Info.current_page = x /\ Info.total_pages = y)

\* C8: "Page X of Y" with 1 <= X <= Y, followed by nothing or by '>'
\* characters only, parses to current = X and total = Y whatever page was
\* requested.
C8_ParsesWithMarks ==
    pc = "prompt" =>
        \A x \in 1..MaxNum : \A y \in x..MaxNum : \A st \in SeqsUpTo({">"}, MaxStray) :
            (soup.div /\ soup.text = MarkerText(<<DigitTok(x)>>, <<DigitTok(y)>>) \o st)
                => (Info.current_page = x /\ Info.total_pages = y)

\* page 1 was requested and its marker reads "Page 2 of 2>"
C8_Witness ==
    /\ pc = "prompt"
    /\ PAGE = 1
    /\ soup = [div |-> TRUE, text |-> <<"Page", " ", "2", " ", "of", " ", "2", ">">>]
    /\ Info.current_page = 2
    /\ Info.total_pages = 2

\* C9: choosing a book without a link fetches no feed, submits nothing, and
\* tells the user so.
C9_NoLinkIsVisible ==
    (pc = "break" /\ selected_book # None /\ selected_book[1].link = None) =>
        /\ lastFeed = "none"
        /\ attempts = << >>
        /\ out # << >>

\* C10 as stated: while every marker shown agreed with the requested page,
\* the cursor is within 1..total of the page on display before and after
\* every input.
C10_CursorInRange ==
    [][ (pc = "prompt" /\ hist.agree) =>
            /\ PAGE \in 1..Info.total_pages
            /\ PAGE' \in 1..Info.total_pages ]_vars

\* C10: while every marker shown agreed with the requested page and had a
\* total not below its current page, the cursor is within 1..total of the
\* page on display before and after every input.
C10_CursorInRangeOrdered ==
    [][ (pc = "prompt" /\ hist.agree /\ hist.ordered) =>
            /\ PAGE \in 1..Info.total_pages
            /\ PAGE' \in 1..Info.total_pages ]_vars

\* 'n' was refused on the last page, reached by navigation
C10_Witness ==
    /\ pc = "prompt"
    /\ hist.agree
    /\ hist.ordered
    /\ PAGE > 1
    /\ PAGE = Info.total_pages
    /\ choice = <<"n">>
    /\ out = <<"No next page available.">>

====
